---- MODULE Spec2Model ----
(***************************************************************************)
(* Model of the Apple Books highlight sync of src/main.ts                  *)
(* (AppleBooksPlugin.syncHighlights and the handlers that start it).       *)
(*                                                                         *)
(* Text is a sequence of fragments.  A character of data is a one-character*)
(* fragment ("@", "|", "x", "1"); the separators are spelled character by  *)
(* character, so that a separator overlapping the end of a field is found  *)
(* where String.prototype.split finds it.  The fixed pieces of a template  *)
(* literal and the ".sqlite" / ".md" extensions are single fragments.      *)
(***************************************************************************)
EXTENDS Integers, Sequences, FiniteSets, TLC

VARIABLES
    annotationDir,     \* listing of .../Documents/AEAnnotation
    booksDir,          \* listing of .../Documents/BKLibrary
    annotationTable,   \* rows of ZAEANNOTATION the first query selects
    booksTable,        \* rows of ZBKLIBRARYASSET
    highlightsFolder,  \* this.settings.highlightsFolder
    vault,             \* the vault: folder path -> [exists, docs]
    pc,                \* per invocation: the await it is suspended at
    annotationData,    \* per invocation: local annotationData
    booksData,         \* per invocation: local booksData
    finalData,         \* per invocation: local finalData
    idx,               \* per invocation: position in Object.entries(finalData)
    pending,           \* per invocation: arguments of the awaited vault call
    calls,             \* per invocation: completed collaborator calls, in order
    runs,              \* what the last syncs in succession left in the folder
    matrix,            \* round trip: the field matrix
    blob,              \* round trip: its encoding
    parsed,            \* round trip: the parse of the encoding
    phase              \* round trip: "build", "encoded", "parsed"

vars == << annotationDir, booksDir, annotationTable, booksTable, highlightsFolder,
           vault, pc, annotationData, booksData, finalData, idx, pending, calls,
           runs, matrix, blob, parsed, phase >>

srcVars == << annotationDir, booksDir, annotationTable, booksTable >>

tripVars == << matrix, blob, parsed, phase >>

syncVars == << highlightsFolder, vault, pc, annotationData, booksData, finalData,
               idx, pending, calls, runs >>

(***************************************************************************)
(* Bounds                                                                  *)
(***************************************************************************)
\* invocations of syncHighlights that can be in flight at once
MaxInFlight == 2

\* rows of the annotation table
MaxAnnRows == 3

\* rows of the catalog table
MaxCatRows == 2

\* round trip: rows of the matrix, fields of a row, characters of a field,
\* characters of the whole matrix
MaxTripRows == 2

MaxTripFields == 2

MaxTripFieldLen == 3

MaxTripChars == 3

Syncs == 1 .. MaxInFlight

(***************************************************************************)
(* Strings                                                                 *)
(***************************************************************************)
\* the row separator of ".separator ||| @@@"
RowSep == << "@", "@", "@" >>

\* the field separator of ".separator ||| @@@"
FieldSep == << "|", "|", "|" >>

\* the value of an array element or object field that is not there
Undefined == << "<undefined>" >>

\* `${v}` in a template literal
ToText(v) == IF v = Undefined THEN << "undefined" >> ELSE v

\* row[n] of a JavaScript array (n from 0)
At(row, n) == IF n + 1 <= Len(row) THEN row[n + 1] ELSE Undefined

\* String.prototype.includes
includes(s, sub) ==
    \E p \in 1 .. (Len(s) - Len(sub) + 1) : SubSeq(s, p, p + Len(sub) - 1) = sub

\* String.prototype.endsWith
endsWith(s, suffix) ==
    /\ Len(s) >= Len(suffix)
    /\ SubSeq(s, Len(s) - Len(suffix) + 1, Len(s)) = suffix

RECURSIVE SplitFrom(_, _, _, _)
\* String.prototype.split(sep), scanning at p with the current piece begun at from:
\* the leftmost occurrence is taken, the scan resumes after it
SplitFrom(s, sep, from, p) ==
    IF p + Len(sep) - 1 > Len(s)
    THEN << SubSeq(s, from, Len(s)) >>
    ELSE IF SubSeq(s, p, p + Len(sep) - 1) = sep
         THEN << SubSeq(s, from, p - 1) >> \o SplitFrom(s, sep, p + Len(sep), p + Len(sep))
         ELSE SplitFrom(s, sep, from, p + 1)

split(s, sep) == SplitFrom(s, sep, 1, 1)

RECURSIVE join(_, _)
\* Array.prototype.join: undefined elements are rendered as the empty string
join(parts, sep) ==
    IF parts = << >> THEN << >>
    ELSE LET head == IF parts[1] = Undefined THEN << >> ELSE parts[1]
         IN  IF Len(parts) = 1 THEN head
             ELSE head \o sep \o join(Tail(parts), sep)

\* the Array.prototype.first extension: the first element, or undefined
first(xs) == IF xs = << >> THEN Undefined ELSE xs[1]

(***************************************************************************)
(* The query engine's output and its parse                                 *)
(***************************************************************************)
RECURSIVE Encode(_)
\* sqlite3 list mode under ".separator ||| @@@": the columns of a row joined
\* by the field separator, every row followed by the row separator
Encode(rows) ==
    IF rows = << >> THEN << >>
    ELSE join(rows[1], FieldSep) \o RowSep \o Encode(Tail(rows))

\* stdout.split("@@@").filter((a) => !!a)
RawRows(stdout) == SelectSeq(split(stdout, RowSep), LAMBDA a : a # << >>)

\* rawRows.map((row) => row.split("|||"))
ParseRows(stdout) ==
    LET raw == RawRows(stdout)
    IN  [n \in 1 .. Len(raw) |-> split(raw[n], FieldSep)]

(***************************************************************************)
(* Objects used as maps: Record<string, ...>                               *)
(*                                                                         *)
(* An object is its own keys in creation order and their values.  Keys are *)
(* the asset ids and text fragments of the tables below; none of them is   *)
(* the name of a property inherited from Object.prototype.                 *)
(***************************************************************************)
Digits == { "0", "1", "2", "3", "4", "5", "6", "7", "8", "9" }

DigitVal == ("0" :> 0) @@ ("1" :> 1) @@ ("2" :> 2) @@ ("3" :> 3) @@ ("4" :> 4) @@
            ("5" :> 5) @@ ("6" :> 6) @@ ("7" :> 7) @@ ("8" :> 8) @@ ("9" :> 9)

\* the decimal digits of 2^32 - 2, the largest array index
MaxIndexDigits == << "4", "2", "9", "4", "9", "6", "7", "2", "9", "4" >>

RECURSIVE DigitsLeq(_, _)
\* s <= t for digit strings of the same length
DigitsLeq(s, t) ==
    IF s = << >> THEN TRUE
    ELSE IF s[1] = t[1] THEN DigitsLeq(Tail(s), Tail(t))
         ELSE DigitVal[s[1]] < DigitVal[t[1]]

\* a canonical array index: the decimal spelling of an integer in 0 .. 2^32 - 2
IsArrayIndex(key) ==
    /\ Len(key) >= 1
    /\ \A n \in 1 .. Len(key) : key[n] \in Digits
    /\ Len(key) = 1 \/ key[1] # "0"
    /\ \/ Len(key) < Len(MaxIndexDigits)
       \/ Len(key) = Len(MaxIndexDigits) /\ DigitsLeq(key, MaxIndexDigits)

\* s < t as array indices
IndexLess(s, t) ==
    \/ Len(s) < Len(t)
    \/ Len(s) = Len(t) /\ s # t /\ DigitsLeq(s, t)

RECURSIVE SortIndices(_)
\* a set of array indices in ascending numeric order
SortIndices(S) ==
    IF S = {} THEN << >>
    ELSE LET least == CHOOSE x \in S : \A y \in S \ {x} : IndexLess(x, y)
         IN  << least >> \o SortIndices(S \ {least})

\* {}
EmptyObject == [keys |-> << >>, val |-> [k \in {} |-> << >>]]

\* whether obj[key] is truthy, for an object whose values are arrays or objects
Has(obj, key) == key \in DOMAIN obj.val

\* obj[key] = value
Put(obj, key, value) ==
    IF key \in DOMAIN obj.val
    THEN [obj EXCEPT !.val[key] = value]
    ELSE [keys |-> Append(obj.keys, key), val |-> (key :> value) @@ obj.val]

\* own keys in creation order only
ObjectKeysInCreationOrder(obj) == obj.keys

\* Object.keys: the array indices in ascending numeric order, then the other
\* keys in creation order
ObjectKeys(obj) ==
    SortIndices({ obj.keys[n] : n \in { m \in 1 .. Len(obj.keys) : IsArrayIndex(obj.keys[m]) } })
        \o SelectSeq(obj.keys, LAMBDA key : ~IsArrayIndex(key))

\* the values of Object.entries(obj), in its order
ObjectEntries(obj) ==
    LET keys == ObjectKeys(obj)
    IN  [n \in 1 .. Len(keys) |-> obj.val[keys[n]]]

(***************************************************************************)
(* Grouping, the catalog query, the join, the rendering                    *)
(***************************************************************************)
\* the HighlightData of a parsed annotation row
Highlight(row) == [annotationId |-> At(row, 1), selectedText |-> At(row, 2)]

RECURSIVE GroupNewestFirst(_, _)
\* a grouping that puts each highlight in front of the ones before it
GroupNewestFirst(rows, acc) ==
    IF rows = << >> THEN acc
    ELSE LET key == At(rows[1], 0)
             old == IF Has(acc, key) THEN acc.val[key] ELSE << >>
         IN  GroupNewestFirst(Tail(rows), Put(acc, key, << Highlight(rows[1]) >> \o old))

RECURSIVE Group(_, _)
\* the reduce over the parsed annotation rows
Group(rows, acc) ==
    IF rows = << >> THEN acc
    ELSE LET key == At(rows[1], 0)
             made == IF ~Has(acc, key) THEN Put(acc, key, << >>) ELSE acc
         IN  Group(Tail(rows), Put(made, key, Append(made.val[key], Highlight(rows[1]))))

\* the rows the catalog query selects: ZASSETID in (uniqueBookIds)
BooksQuery(table, annData) ==
    LET uniqueBookIds == ObjectKeys(annData)
    IN  SelectSeq(table, LAMBDA row : \E n \in 1 .. Len(uniqueBookIds) : row[1] = uniqueBookIds[n])

RECURSIVE JoinSkippingFirst(_, _, _)
\* a join whose loop misses the first catalog row
JoinSkippingFirst(rows, annData, acc) ==
    IF rows = << >> THEN acc
    ELSE LET bookId == At(rows[1], 0)
             rest == Tail(rows)
         IN  IF rest = << >> THEN acc
             ELSE IF ~Has(annData, At(rest[1], 0))
                  THEN JoinSkippingFirst(rest, annData, acc)
                  ELSE JoinSkippingFirst(rest, annData,
                           Put(acc, At(rest[1], 0),
                               [bookId |-> At(rest[1], 0), authorName |-> At(rest[1], 1),
                                bookTitle |-> At(rest[1], 2),
                                highlights |-> annData.val[At(rest[1], 0)]]))

RECURSIVE Join(_, _, _)
\* the loop over booksData that fills finalData
Join(rows, annData, acc) ==
    IF rows = << >> THEN acc
    ELSE LET bookId == At(rows[1], 0)
         IN  IF ~Has(annData, bookId)
             THEN Join(Tail(rows), annData, acc)
             ELSE Join(Tail(rows), annData,
                      Put(acc, bookId,
                          [bookId |-> bookId, authorName |-> At(rows[1], 1),
                           bookTitle |-> At(rows[1], 2),
                           highlights |-> annData.val[bookId]]))

\* the selected texts of a book's highlights
Texts(book) == [n \in 1 .. Len(book.highlights) |-> book.highlights[n].selectedText]

\* the separator between two highlights of a document
Rule == << "\n\n---\n" >>

\* a body that also says whether an earlier sync has succeeded
RenderWithSyncStamp(book) ==
    << "## Metadata\n- Author: " >> \o ToText(book.authorName)
        \o << "\n- [Apple Books Link](ibooks://assetid/" >> \o ToText(book.bookId)
        \o << ")\n\n## Highlights\n" >> \o join(Texts(book), Rule)
        \o (IF runs = << >> THEN << "\n\nfirst sync" >> ELSE << "\n\nsynced again" >>)

\* the document body of a book
Render(book) ==
    << "## Metadata\n- Author: " >> \o ToText(book.authorName)
        \o << "\n- [Apple Books Link](ibooks://assetid/" >> \o ToText(book.bookId)
        \o << ")\n\n## Highlights\n" >> \o join(Texts(book), Rule)

\* the file name of a book's document inside the highlights folder
DocName(book) == ToText(book.bookTitle) \o << ".md" >>

(***************************************************************************)
(* The vault                                                               *)
(***************************************************************************)
\* DEFAULT_SETTINGS.highlightsFolder
DefaultFolder == "Apple Books Highlights"

\* the paths the vault may hold a folder at
Folders == { DefaultFolder, "Notes" }

\* a path at which getAbstractFileByPath finds nothing
NoFolder == [exists |-> FALSE, docs |-> {}]

\* a file of the user's, not written by any sync
UserDoc == [name |-> << "todo", ".md" >>, content |-> << "mine" >>]

\* a delete that is not recursive: the files of the folder stay on disk
VaultDeleteKeepingFiles(v, folder) == [v EXCEPT ![folder].exists = FALSE]

\* vault.delete(folder, true): the folder and everything in it
VaultDelete(v, folder) == [v EXCEPT ![folder] = NoFolder]

\* vault.createFolder(path) resolves only where nothing exists at the path
CanCreateFolder(v, folder) == ~v[folder].exists

\* vault.createFolder(path): the path becomes a folder
VaultCreateFolder(v, folder) == [v EXCEPT ![folder].exists = TRUE]

\* vault.create(path, data) resolves only inside an existing folder, at a free name
CanCreate(v, folder, name) ==
    /\ v[folder].exists
    /\ \A d \in v[folder].docs : d.name # name

\* vault.create(path, data)
VaultCreate(v, folder, name, content) ==
    [v EXCEPT ![folder].docs = @ \cup { [name |-> name, content |-> content] }]

(***************************************************************************)
(* The source data                                                         *)
(***************************************************************************)
\* path.endsWith(".sqlite")
SqliteExt == << ".sqlite" >>

\* a container that cannot be listed: readdir rejects, .catch(() => []) answers
DirUnreadable == [readable |-> FALSE, files |-> << >>]

\* a container holding only the database's side files
DirWithoutDb ==
    [readable |-> TRUE, files |-> << << "db", ".sqlite", "-wal" >>, << "db", ".sqlite", "-shm" >> >>]

\* a container holding a database file among other files
DirWithDb ==
    [readable |-> TRUE, files |-> << << "db", ".sqlite", "-wal" >>, << "db", ".sqlite" >> >>]

\* asset ids: a hash-like id and two store ids, 2 and 10
IdB == << "B" >>

Id2 == << "2" >>

Id10 == << "1", "0" >>

Author == << "Jane Doe" >>

\* the rows a table of annotations is made of: (asset id, annotation uuid, selected text)
AnnRowCandidates ==
    { << IdB, << "A1" >>, << "x" >> >>, << IdB, << "A2" >>, << "y" >> >>,
      << Id2, << "A3" >>, << "x" >> >>, << Id10, << "A4" >>, << "x" >> >> }

\* the rows a catalog is made of: (asset id, author, title); two books share a
\* title, and one title holds the row separator
CatRowCandidates ==
    { << IdB, Author, << "T" >> >>, << Id2, Author, << "U" >> >>,
      << Id10, Author, << "T" >> >>,
      << Id2, Author, << "V", "@", "@", "@", "B" >> >> }

\* the sequences over S of length at most n
SeqsUpTo(S, n) == UNION { [1 .. m -> S] : m \in 0 .. n }

\* the tables of the sequential and the overlapping runs
Scenarios ==
    { [ad |-> DirUnreadable, bd |-> DirWithDb, at |-> << >>, bt |-> << >>],
      [ad |-> DirWithoutDb, bd |-> DirWithDb, at |-> << >>, bt |-> << >>],
      [ad |-> DirWithDb, bd |-> DirWithoutDb, at |-> << >>, bt |-> << >>],
      [ad |-> DirWithDb, bd |-> DirUnreadable, at |-> << >>, bt |-> << >>],
      [ad |-> DirWithDb, bd |-> DirWithDb,
       at |-> << << IdB, << "A1" >>, << "x" >> >>, << IdB, << "A2" >>, << "y" >> >> >>,
       bt |-> << << IdB, Author, << "T" >> >> >>],
      [ad |-> DirWithDb, bd |-> DirWithDb,
       at |-> << << IdB, << "A1" >>, << "x" >> >>, << Id2, << "A3" >>, << "x" >> >> >>,
       bt |-> << << IdB, Author, << "T" >> >>, << Id2, Author, << "U" >> >> >>],
      [ad |-> DirWithDb, bd |-> DirWithDb,
       at |-> << << IdB, << "A1" >>, << "x" >> >>, << Id10, << "A4" >>, << "x" >> >> >>,
       bt |-> << << IdB, Author, << "T" >> >>, << Id10, Author, << "T" >> >> >>],
      [ad |-> DirWithDb, bd |-> DirWithDb,
       at |-> << << Id2, << "A3" >>, << "x" >> >> >>,
       bt |-> << >>] }

\* the vaults a run can start from: each folder absent, or holding a file of the user's
InitialVaults == [Folders -> { NoFolder, [exists |-> TRUE, docs |-> { UserDoc }] }]

(***************************************************************************)
(* Initial states                                                          *)
(***************************************************************************)
\* no invocation has been made: loadSettings has put the default folder in place
InitSync ==
    /\ highlightsFolder = DefaultFolder
    /\ pc = [i \in Syncs |-> "idle"]
    /\ annotationData = [i \in Syncs |-> EmptyObject]
    /\ booksData = [i \in Syncs |-> << >>]
    /\ finalData = [i \in Syncs |-> EmptyObject]
    /\ idx = [i \in Syncs |-> 0]
    /\ pending = [i \in Syncs |-> [folder |-> DefaultFolder, name |-> << >>, content |-> << >>]]
    /\ calls = [i \in Syncs |-> << >>]
    /\ runs = << >>

\* the round trip is not in use
InitTripOff ==
    /\ matrix = << >>
    /\ blob = << >>
    /\ parsed = << >>
    /\ phase = "off"

Init ==
    /\ \E sc \in Scenarios :
          /\ annotationDir = sc.ad
          /\ booksDir = sc.bd
          /\ annotationTable = sc.at
          /\ booksTable = sc.bt
    /\ vault \in InitialVaults
    /\ InitSync
    /\ InitTripOff

\* one run over every pair of tables within the bounds
InitJoin ==
    /\ annotationDir = DirWithDb
    /\ booksDir = DirWithDb
    /\ annotationTable \in SeqsUpTo(AnnRowCandidates, MaxAnnRows)
    /\ booksTable \in SeqsUpTo(CatRowCandidates, MaxCatRows)
    /\ vault \in { v \in InitialVaults : ~v["Notes"].exists }
    /\ InitSync
    /\ InitTripOff

(***************************************************************************)
(* syncHighlights, one action per await: the awaited call completes and    *)
(* the function runs on to its next await, its return or its rejection     *)
(***************************************************************************)
\* the awaits of syncHighlights
Suspended ==
    { "readdirAnnotation", "readdirBooks", "execAnnotation", "execBooks",
      "delete", "createFolder", "create" }

\* a completed call to a collaborator (fs, the query engine, the vault, Notice)
Call(op, arg, name, ok) == [op |-> op, arg |-> arg, name |-> name, ok |-> ok]

\* the entry of a call that carries no file name
Did(op, arg, ok) == Call(op, arg, << >>, ok)

\* the vault call an invocation awaits on a folder
OnFolder(folder) == [folder |-> folder, name |-> << >>, content |-> << >>]

\* the first entry of a listing that ends in ".sqlite"
DbFileName(dir) ==
    first(SelectSeq(IF dir.readable THEN dir.files ELSE << >>,
                    LAMBDA fileName : endsWith(fileName, SqliteExt)))

\* what is recorded of a sync that ends in vault v by its success notice, or by
\* a create refused because the file exists: the folder's documents, after
\* those of the sync before it
RunsAfter(v) ==
    LET snap == [folder |-> highlightsFolder, docs |-> v[highlightsFolder].docs]
    IN  IF runs = << >> THEN << snap >> ELSE << runs[Len(runs)], snap >>

\* a start that waits for every other invocation to finish
CanStartExclusive(i) == \A j \in Syncs : pc[j] \notin Suspended

\* the command and ribbon callbacks call syncHighlights unconditionally; slot i
\* of the model is free to hold the new invocation
CanStart(i) == pc[i] \notin Suspended

\* the callback runs syncHighlights up to its first await
Start(i) ==
    /\ CanStart(i)
    /\ pc' = [pc EXCEPT ![i] = "readdirAnnotation"]
    /\ annotationData' = [annotationData EXCEPT ![i] = EmptyObject]
    /\ booksData' = [booksData EXCEPT ![i] = << >>]
    /\ finalData' = [finalData EXCEPT ![i] = EmptyObject]
    /\ idx' = [idx EXCEPT ![i] = 0]
    /\ pending' = [pending EXCEPT ![i] = OnFolder(DefaultFolder)]
    /\ calls' = [calls EXCEPT ![i] = << >>]
    /\ UNCHANGED << srcVars, tripVars, highlightsFolder, vault, runs >>

\* the only start of a slot
FirstStart(i) ==
    /\ pc[i] = "idle"
    /\ Start(i)

\* the promise of the invocation rejects at the failed call
Reject(i, call, after) ==
    /\ pc' = [pc EXCEPT ![i] = "rejected"]
    /\ calls' = [calls EXCEPT ![i] = Append(@, call)]
    /\ runs' = after
    /\ UNCHANGED << srcVars, tripVars, highlightsFolder, vault, annotationData,
                    booksData, finalData, idx, pending >>

\* the not-found notice, then return
NotFound(i, listed, notice) ==
    /\ pc' = [pc EXCEPT ![i] = "returned"]
    /\ calls' = [calls EXCEPT ![i] = @ \o << listed, Did("notice", notice, TRUE) >>]
    /\ runs' = << >>
    /\ UNCHANGED << srcVars, tripVars, highlightsFolder, vault, annotationData,
                    booksData, finalData, idx, pending >>

ReaddirAnnotation(i) ==
    /\ pc[i] = "readdirAnnotation"
    /\ LET listed == Did("readdir", "AEAnnotation", annotationDir.readable)
           annotationDBFileName == DbFileName(annotationDir)
       IN  IF annotationDBFileName = Undefined \/ annotationDBFileName = << >>
           THEN NotFound(i, listed, "Apple Books Annotation Database not found, cannot sync.")
           ELSE /\ pc' = [pc EXCEPT ![i] = "readdirBooks"]
                /\ calls' = [calls EXCEPT ![i] = Append(@, listed)]
                /\ UNCHANGED << srcVars, tripVars, highlightsFolder, vault, annotationData,
                                booksData, finalData, idx, pending, runs >>

ReaddirBooks(i) ==
    /\ pc[i] = "readdirBooks"
    /\ LET listed == Did("readdir", "BKLibrary", booksDir.readable)
           booksDBFileName == DbFileName(booksDir)
       IN  IF booksDBFileName = Undefined \/ booksDBFileName = << >>
           THEN NotFound(i, listed, "Apple Books Books Database not found, cannot sync.")
           ELSE /\ pc' = [pc EXCEPT ![i] = "execAnnotation"]
                /\ calls' = [calls EXCEPT ![i] = Append(@, listed)]
                /\ UNCHANGED << srcVars, tripVars, highlightsFolder, vault, annotationData,
                                booksData, finalData, idx, pending, runs >>

ExecAnnotation(i) ==
    /\ pc[i] = "execAnnotation"
    /\ \/ Reject(i, Did("exec", "annotation", FALSE), << >>)
       \/ /\ annotationData' =
                [annotationData EXCEPT ![i] = Group(ParseRows(Encode(annotationTable)), EmptyObject)]
          /\ pc' = [pc EXCEPT ![i] = "execBooks"]
          /\ calls' = [calls EXCEPT ![i] = Append(@, Did("exec", "annotation", TRUE))]
          /\ UNCHANGED << srcVars, tripVars, highlightsFolder, vault, booksData,
                          finalData, idx, pending, runs >>

\* the catalog query fails, and the folder is deleted all the same
ExecBooksDeletingFirst(i) ==
    /\ pc[i] = "execBooks"
    /\ pc' = [pc EXCEPT ![i] = "rejected"]
    /\ calls' = [calls EXCEPT ![i] = Append(@, Did("exec", "books", FALSE))]
    /\ vault' = VaultDelete(vault, highlightsFolder)
    /\ runs' = << >>
    /\ UNCHANGED << srcVars, tripVars, highlightsFolder, annotationData,
                    booksData, finalData, idx, pending >>

ExecBooks(i) ==
    /\ pc[i] = "execBooks"
    /\ \/ Reject(i, Did("exec", "books", FALSE), << >>)
       \/ LET rows == ParseRows(Encode(BooksQuery(booksTable, annotationData[i])))
          IN  /\ booksData' = [booksData EXCEPT ![i] = rows]
              /\ finalData' = [finalData EXCEPT ![i] = Join(rows, annotationData[i], EmptyObject)]
              /\ pc' = [pc EXCEPT ![i] =
                            IF vault[highlightsFolder].exists THEN "delete" ELSE "createFolder"]
              /\ pending' = [pending EXCEPT ![i] = OnFolder(highlightsFolder)]
              /\ calls' = [calls EXCEPT ![i] = Append(@, Did("exec", "books", TRUE))]
              /\ UNCHANGED << srcVars, tripVars, highlightsFolder, vault, annotationData,
                              idx, runs >>

Delete(i) ==
    /\ pc[i] = "delete"
    /\ \/ Reject(i, Did("delete", pending[i].folder, FALSE), << >>)
       \/ /\ vault' = VaultDelete(vault, pending[i].folder)
          /\ pc' = [pc EXCEPT ![i] = "createFolder"]
          /\ pending' = [pending EXCEPT ![i] = OnFolder(highlightsFolder)]
          /\ calls' = [calls EXCEPT ![i] = Append(@, Did("delete", pending[i].folder, TRUE))]
          /\ UNCHANGED << srcVars, tripVars, highlightsFolder, annotationData, booksData,
                          finalData, idx, runs >>

\* a loop that shows the success notice after the first document
LoopStoppingEarly(i, n, v, log) ==
    /\ vault' = v
    /\ idx' = [idx EXCEPT ![i] = n]
    /\ LET entries == ObjectEntries(finalData[i])
       IN  IF n > Len(entries) \/ n > 1
           THEN /\ pc' = [pc EXCEPT ![i] = "done"]
                /\ calls' = [calls EXCEPT ![i] =
                       Append(log, Did("notice", "Successfully finished Apple Books Highlight Sync", TRUE))]
                /\ runs' = RunsAfter(v)
                /\ UNCHANGED pending
           ELSE /\ pc' = [pc EXCEPT ![i] = "create"]
                /\ pending' = [pending EXCEPT ![i] =
                       [folder |-> highlightsFolder, name |-> DocName(entries[n]),
                        content |-> Render(entries[n])]]
                /\ calls' = [calls EXCEPT ![i] = log]
                /\ UNCHANGED runs
    /\ UNCHANGED << srcVars, tripVars, highlightsFolder, annotationData, booksData, finalData >>

\* the for loop at entry n of Object.entries(finalData), in vault v with the
\* calls log: the next vault.create is issued, or the success notice is shown
Loop(i, n, v, log) ==
    /\ vault' = v
    /\ idx' = [idx EXCEPT ![i] = n]
    /\ LET entries == ObjectEntries(finalData[i])
       IN  IF n > Len(entries)
           THEN /\ pc' = [pc EXCEPT ![i] = "done"]
                /\ calls' = [calls EXCEPT ![i] =
                       Append(log, Did("notice", "Successfully finished Apple Books Highlight Sync", TRUE))]
                /\ runs' = RunsAfter(v)
                /\ UNCHANGED pending
           ELSE /\ pc' = [pc EXCEPT ![i] = "create"]
                /\ pending' = [pending EXCEPT ![i] =
                       [folder |-> highlightsFolder, name |-> DocName(entries[n]),
                        content |-> Render(entries[n])]]
                /\ calls' = [calls EXCEPT ![i] = log]
                /\ UNCHANGED runs
    /\ UNCHANGED << srcVars, tripVars, highlightsFolder, annotationData, booksData, finalData >>

CreateFolder(i) ==
    /\ pc[i] = "createFolder"
    /\ \/ Reject(i, Did("createFolder", pending[i].folder, FALSE), << >>)
       \/ /\ CanCreateFolder(vault, pending[i].folder)
          /\ Loop(i, 1, VaultCreateFolder(vault, pending[i].folder),
                  Append(calls[i], Did("createFolder", pending[i].folder, TRUE)))

Create(i) ==
    /\ pc[i] = "create"
    /\ \/ Reject(i, Call("create", pending[i].folder, pending[i].name, FALSE),
                 IF CanCreate(vault, pending[i].folder, pending[i].name) THEN << >> ELSE RunsAfter(vault))
       \/ /\ CanCreate(vault, pending[i].folder, pending[i].name)
          /\ Loop(i, idx[i] + 1,
                  VaultCreate(vault, pending[i].folder, pending[i].name, pending[i].content),
                  Append(calls[i], Call("create", pending[i].folder, pending[i].name, TRUE)))

\* the dropdown's onChange: the dropdown offers the folders of the vault; the
\* setting is replaced and saved
SetFolder(folder) ==
    /\ vault[folder].exists
    /\ folder # highlightsFolder
    /\ highlightsFolder' = folder
    /\ runs' = << >>
    /\ UNCHANGED << srcVars, tripVars, vault, pc, annotationData, booksData, finalData,
                    idx, pending, calls >>

\* the setting is changed while no sync is in flight
SetFolderBetweenSyncs(folder) ==
    /\ \A i \in Syncs : pc[i] \notin Suspended
    /\ SetFolder(folder)

(***************************************************************************)
(* Specifications                                                          *)
(***************************************************************************)
\* one handler at a time: a sync is started when the one before has ended
Next ==
    \/ \E i \in { 1 } :
          \/ Start(i)
          \/ ReaddirAnnotation(i)
          \/ ReaddirBooks(i)
          \/ ExecAnnotation(i)
          \/ ExecBooks(i)
          \/ Delete(i)
          \/ CreateFolder(i)
          \/ Create(i)
    \/ \E folder \in Folders : SetFolderBetweenSyncs(folder)

Spec == Init /\ [][Next]_vars

\* a single sync over every pair of tables
NextJoin ==
    \E i \in { 1 } :
        \/ FirstStart(i)
        \/ ReaddirAnnotation(i)
        \/ ReaddirBooks(i)
        \/ ExecAnnotation(i)
        \/ ExecBooks(i)
        \/ Delete(i)
        \/ CreateFolder(i)
        \/ Create(i)

SpecJoin == InitJoin /\ [][NextJoin]_vars

\* syncs that overlap: a callback may run whenever the others are suspended,
\* and so may the settings handler
InitOverlap ==
    /\ \E sc \in { x \in Scenarios : Len(x.bt) >= 2 /\ x.bt[1][3] # x.bt[2][3] } :
          /\ annotationDir = sc.ad
          /\ booksDir = sc.bd
          /\ annotationTable = sc.at
          /\ booksTable = sc.bt
    /\ vault \in { v \in InitialVaults : \A folder \in Folders : v[folder].exists }
    /\ InitSync
    /\ InitTripOff

NextOverlap ==
    \/ \E i \in Syncs :
          \/ FirstStart(i)
          \/ ReaddirAnnotation(i)
          \/ ReaddirBooks(i)
          \/ ExecAnnotation(i)
          \/ ExecBooks(i)
          \/ Delete(i)
          \/ CreateFolder(i)
          \/ Create(i)
    \/ \E folder \in Folders : SetFolder(folder)

SpecOverlap == InitOverlap /\ [][NextOverlap]_vars

(***************************************************************************)
(* The separator round trip on its own: a matrix of fields is built one    *)
(* row, field and character at a time, encoded as the query engine writes  *)
(* it, and parsed as syncHighlights parses it                              *)
(***************************************************************************)
\* the characters of a field: an ordinary one and those of the two separators
TripChars == { "x", "@", "|" }

RECURSIVE CharCount(_)
\* the characters of a row
CharCount(row) == IF row = << >> THEN 0 ELSE Len(row[1]) + CharCount(Tail(row))

RECURSIVE TotalChars(_)
\* the characters of a matrix
TotalChars(rows) == IF rows = << >> THEN 0 ELSE CharCount(rows[1]) + TotalChars(Tail(rows))

InitParse ==
    /\ annotationDir = DirWithDb
    /\ booksDir = DirWithDb
    /\ annotationTable = << >>
    /\ booksTable = << >>
    /\ vault = [f \in Folders |-> NoFolder]
    /\ InitSync
    /\ matrix = << >>
    /\ blob = << >>
    /\ parsed = << >>
    /\ phase = "build"

\* a new row, of one empty field
TripAddRow ==
    /\ phase = "build"
    /\ Len(matrix) < MaxTripRows
    /\ matrix' = Append(matrix, << << >> >>)
    /\ UNCHANGED << srcVars, syncVars, blob, parsed, phase >>

\* a new empty field in the last row
TripAddField ==
    /\ phase = "build"
    /\ matrix # << >>
    /\ Len(matrix[Len(matrix)]) < MaxTripFields
    /\ matrix' = [matrix EXCEPT ![Len(matrix)] = Append(@, << >>)]
    /\ UNCHANGED << srcVars, syncVars, blob, parsed, phase >>

\* a character more in the last field
TripAddChar(c) ==
    /\ phase = "build"
    /\ matrix # << >>
    /\ TotalChars(matrix) < MaxTripChars
    /\ LET r == Len(matrix)
           f == Len(matrix[r])
       IN  /\ Len(matrix[r][f]) < MaxTripFieldLen
           /\ matrix' = [matrix EXCEPT ![r][f] = Append(@, c)]
    /\ UNCHANGED << srcVars, syncVars, blob, parsed, phase >>

\* the query engine writes the matrix
TripEncode ==
    /\ phase = "build"
    /\ blob' = Encode(matrix)
    /\ phase' = "encoded"
    /\ UNCHANGED << srcVars, syncVars, matrix, parsed >>

\* syncHighlights parses what was written
TripParse ==
    /\ phase = "encoded"
    /\ parsed' = ParseRows(blob)
    /\ phase' = "parsed"
    /\ UNCHANGED << srcVars, syncVars, matrix, blob >>

NextParse ==
    \/ TripAddRow
    \/ TripAddField
    \/ \E c \in TripChars : TripAddChar(c)
    \/ TripEncode
    \/ TripParse

SpecParse == InitParse /\ [][NextParse]_vars

(***************************************************************************)
(* Properties                                                              *)
(***************************************************************************)
\* the text of the success notice
SuccessNotice == "Successfully finished Apple Books Highlight Sync"

\* the vault calls
VaultOps == { "delete", "createFolder", "create" }

\* a listing with no entry whose last fragment is the database extension
NoDatabaseIn(dir) ==
    \/ ~dir.readable
    \/ \A n \in 1 .. Len(dir.files) :
          \/ dir.files[n] = << >>
          \/ dir.files[n][Len(dir.files[n])] # ".sqlite"

\* C2: in every run no vault mutation (delete, createFolder, create) happens
\* before both the annotation query and the catalog query have completed
\* successfully, and a run whose query fails aborts with the vault as it was
\* when the run started: every vault call in a run's log comes after both
\* successful queries, a run rejected by a failed query has made no vault call,
\* and no step taken while the run is not awaiting a vault call changes the vault.
C2_NoWriteBeforeQueries ==
    /\ [](\A i \in Syncs :
            /\ \A n \in 1 .. Len(calls[i]) :
                  calls[i][n].op \in VaultOps =>
                      \E a, b \in 1 .. (n - 1) :
                          /\ a < b
                          /\ calls[i][a] = Did("exec", "annotation", TRUE)
                          /\ calls[i][b] = Did("exec", "books", TRUE)
            /\ (pc[i] = "rejected" /\ calls[i][Len(calls[i])].op = "exec") =>
                  \A n \in 1 .. Len(calls[i]) : calls[i][n].op \notin VaultOps)
    /\ [][(\A i \in Syncs : pc[i] \notin VaultOps) => vault' = vault]_vars

\* C2 witness: a run was rejected by its failed catalog query while the
\* destination folder holds a file
C2_QueryFailed ==
    /\ pc[1] = "rejected"
    /\ calls[1][Len(calls[1])] = Did("exec", "books", FALSE)
    /\ vault[highlightsFolder].docs # {}

\* C1: if the annotation container lists no entry ending in .sqlite (or cannot
\* be listed), or the library container lists none, the run ends after the
\* notice for that store, the annotation store being checked first, and does
\* nothing else: its whole log is the listing(s) and the notice, so no query,
\* no delete, no createFolder, no create and no success notice.
C1_NotFoundAborts ==
    \A i \in Syncs :
        /\ (NoDatabaseIn(annotationDir) /\ pc[i] \notin { "idle", "readdirAnnotation" }) =>
              /\ pc[i] = "returned"
              /\ calls[i] =
                    << Did("readdir", "AEAnnotation", annotationDir.readable),
                       Did("notice", "Apple Books Annotation Database not found, cannot sync.", TRUE) >>
        /\ (/\ ~NoDatabaseIn(annotationDir)
            /\ NoDatabaseIn(booksDir)
            /\ pc[i] \notin { "idle", "readdirAnnotation", "readdirBooks" }) =>
              /\ pc[i] = "returned"
              /\ calls[i] =
                    << Did("readdir", "AEAnnotation", TRUE),
                       Did("readdir", "BKLibrary", booksDir.readable),
                       Did("notice", "Apple Books Books Database not found, cannot sync.", TRUE) >>

\* C1 witness: a run has returned because the annotation container, which
\* holds only side files of the database, lists no entry ending in .sqlite
C1_AnnotationStoreMissing ==
    /\ pc[1] = "returned"
    /\ annotationDir.readable
    /\ annotationDir.files # << >>
    /\ NoDatabaseIn(annotationDir)

\* the rows of the annotation query: (asset id, annotation id, selected text)
AnnRows == annotationTable

\* the book ids of the annotation rows
AnnIds == { At(AnnRows[n], 0) : n \in 1 .. Len(AnnRows) }

\* the book ids of the catalog rows run i got
CatIds(i) == { At(booksData[i][n], 0) : n \in 1 .. Len(booksData[i]) }

\* run i has grouped its annotations
Grouped(i) == \E n \in 1 .. Len(calls[i]) : calls[i][n] = Did("exec", "annotation", TRUE)

\* run i has built finalData
Joined(i) == \E n \in 1 .. Len(calls[i]) : calls[i][n] = Did("exec", "books", TRUE)

\* the SyncedBooks of run i
Books(i) == { finalData[i].val[key] : key \in DOMAIN finalData[i].val }

RowsOf(id) == SelectSeq(AnnRows, LAMBDA row : At(row, 0) = id)

\* the selected texts of the annotation rows of a book, in row order
TextsOf(id) == [n \in 1 .. Len(RowsOf(id)) |-> At(RowsOf(id)[n], 2)]

RECURSIVE FirstOccurrences(_, _)
\* a sequence without the repetitions of what it has shown before
FirstOccurrences(xs, seen) ==
    IF xs = << >> THEN << >>
    ELSE IF xs[1] \in seen THEN FirstOccurrences(Tail(xs), seen)
         ELSE << xs[1] >> \o FirstOccurrences(Tail(xs), seen \cup { xs[1] })

\* the ids of the SyncedBooks of run i in the order of their first catalog row
CatalogOrder(i) ==
    FirstOccurrences(
        SelectSeq([n \in 1 .. Len(booksData[i]) |-> At(booksData[i][n], 0)],
                  LAMBDA id : id \in DOMAIN finalData[i].val),
        {})

\* the names of the documents run i has asked the vault to create, in order
CreateNames(i) ==
    LET creates == SelectSeq(calls[i], LAMBDA c : c.op = "create")
    IN  [n \in 1 .. Len(creates) |-> creates[n].name]

\* whether the documents run i has asked for so far are those of ids, in order
CreatedInOrder(i, ids) ==
    /\ Len(CreateNames(i)) <= Len(ids)
    /\ \A n \in 1 .. Len(CreateNames(i)) : CreateNames(i)[n] = DocName(finalData[i].val[ids[n]])
    /\ pc[i] = "create" =>
          /\ Len(CreateNames(i)) < Len(ids)
          /\ pending[i].name = DocName(finalData[i].val[ids[Len(CreateNames(i)) + 1]])

Dest(i) ==
    LET made == SelectSeq(calls[i], LAMBDA c : c.op = "createFolder" /\ c.ok)
    IN  made[1].arg

\* the documents of the first n entries of Object.entries(finalData) of run i
DocsOf(i, n) ==
    LET entries == ObjectEntries(finalData[i])
    IN  { [name |-> DocName(entries[m]), content |-> Render(entries[m])] : m \in 1 .. n }

\* C4: two syncs run in succession, with the source data and the settings
\* unchanged between them and no call failing for a reason outside the data,
\* leave the destination folder with the same document names and the same
\* contents after the second as after the first.
C4_Idempotent ==
    Len(runs) = 2 =>
        /\ runs[1].folder = runs[2].folder
        /\ runs[1].docs = runs[2].docs

\* C4 witness: two syncs in succession have both succeeded and left documents
C4_TwoSuccessfulRuns ==
    /\ Len(runs) = 2
    /\ runs[2].docs # {}
    /\ pc[1] = "done"

\* C5: when a sync has shown the success notice, the destination folder holds
\* exactly the documents that sync created, one <bookTitle>.md per SyncedBook,
\* and nothing that was in the folder before.
C5_FullReplace ==
    \A i \in Syncs :
        pc[i] = "done" =>
            /\ vault[Dest(i)].exists
            /\ vault[Dest(i)].docs = DocsOf(i, Len(finalData[i].keys))
            /\ Cardinality(vault[Dest(i)].docs) = Len(finalData[i].keys)
            /\ \A d \in vault[Dest(i)].docs :
                  \E n \in 1 .. Len(calls[i]) :
                      calls[i][n] = Call("create", Dest(i), d.name, TRUE)

\* C5 witness: a sync succeeded after deleting a folder that existed, and left
\* documents of its own in it
C5_ReplacedExistingFolder ==
    /\ pc[1] = "done"
    /\ \E n \in 1 .. Len(calls[1]) : calls[1][n] = Did("delete", Dest(1), TRUE)
    /\ vault[Dest(1)].docs # {}

\* C8: the success notice is the last call of a run in which the folder was
\* recreated, every SyncedBook's document was created and no vault call
\* failed; a run rejected by a failed delete, createFolder or create shows no
\* success notice, has created exactly the documents of the entries before
\* the failure, which are still in the folder, and none after it.
C8_NoticeOnlyOnFullSuccess ==
    \A i \in Syncs :
        LET log == calls[i]
            creates == SelectSeq(log, LAMBDA c : c.op = "create" /\ c.ok)
            entries == ObjectEntries(finalData[i])
            noticed == \E n \in 1 .. Len(log) : log[n] = Did("notice", SuccessNotice, TRUE)
        IN  /\ noticed =>
                  /\ pc[i] = "done"
                  /\ log[Len(log)] = Did("notice", SuccessNotice, TRUE)
                  /\ \A n \in 1 .. Len(log) : log[n].op \in VaultOps \cup { "exec" } => log[n].ok
                  /\ \E n \in 1 .. Len(log) : log[n].op = "createFolder"
                  /\ Len(creates) = Len(entries)
                  /\ \A n \in 1 .. Len(entries) : creates[n].name = DocName(entries[n])
            /\ pc[i] = "done" => noticed
            /\ (pc[i] = "rejected" /\ log[Len(log)].op \in VaultOps) =>
                  /\ ~log[Len(log)].ok
                  /\ ~noticed
                  /\ Len(creates) < Len(entries) \/ log[Len(log)].op # "create"
                  /\ \A n \in 1 .. Len(creates) : creates[n].name = DocName(entries[n])
                  /\ log[Len(log)].op = "create" =>
                        /\ log[Len(log)].name = DocName(entries[Len(creates) + 1])
                        /\ vault[log[Len(log)].arg].docs = DocsOf(i, Len(creates))
                  /\ log[Len(log)].op # "create" => creates = << >>

\* C8 witness: a run was rejected by a failed create after it had created a
\* document, which is still in the folder
C8_PartiallyPopulated ==
    /\ pc[1] = "rejected"
    /\ calls[1][Len(calls[1])].op = "create"
    /\ \E n \in 1 .. Len(calls[1]) : calls[1][n].op = "create" /\ calls[1][n].ok
    /\ vault[calls[1][Len(calls[1])].arg].docs # {}

NoSeparatorInside(rows) ==
    \A r \in 1 .. Len(rows) : \A f \in 1 .. Len(rows[r]) :
        /\ ~includes(rows[r][f], RowSep)
        /\ ~includes(rows[r][f], FieldSep)

\* no row is a single empty field, no last field of a row ends with the
\* character of the row separator, no other field with that of the field separator
NoSeparatorAtEdge(rows) ==
    \A r \in 1 .. Len(rows) :
        /\ rows[r] # << << >> >>
        /\ \A f \in 1 .. Len(rows[r]) :
              LET field == rows[r][f]
              IN  field # << >> =>
                      /\ f = Len(rows[r]) => field[Len(field)] # "@"
                      /\ f < Len(rows[r]) => field[Len(field)] # "|"

\* C6 as stated: every matrix whose fields hold neither separator parses back
\* from its encoding to itself.
C6_RoundTrip ==
    (phase = "parsed" /\ NoSeparatorInside(matrix)) => parsed = matrix

\* C6, the part that holds: every matrix of rows of at least one field whose
\* fields hold neither separator, in which no row is a single empty field, no
\* last field of a row ends with '@' and no other field ends with '|', parses
\* back from its encoding to itself: same rows, same fields, same values, same order.
C6_RoundTripAwayFromEdges ==
    (phase = "parsed" /\ NoSeparatorInside(matrix) /\ NoSeparatorAtEdge(matrix)) =>
        parsed = matrix

\* C6, the part that holds, seen: a matrix of two rows, one of them of two
\* fields, with separator characters inside its fields, has been encoded and parsed
C6_TwoRowsParsed ==
    /\ phase = "parsed"
    /\ NoSeparatorInside(matrix)
    /\ NoSeparatorAtEdge(matrix)
    /\ Len(matrix) = 2
    /\ \E r \in 1 .. 2 : Len(matrix[r]) = 2
    /\ \E r \in 1 .. 2 : \E f \in 1 .. Len(matrix[r]) :
          includes(matrix[r][f], << "@" >>) \/ includes(matrix[r][f], << "|" >>)

\* C6 failing input: one row of two fields, neither of them empty nor holding
\* a separator, the last one ending with '@', comes back from the parse as
\* two rows, the '@' cut off the field and put at the head of a row of its own
C6_TrailingAtLost ==
    /\ phase = "parsed"
    /\ NoSeparatorInside(matrix)
    /\ Len(matrix) = 1
    /\ Len(matrix[1]) = 2
    /\ matrix[1][1] # << >>
    /\ matrix[1][2] = << "x", "@" >>
    /\ Len(parsed) = 2
    /\ parsed[1] = << matrix[1][1], << "x" >> >>
    /\ parsed[2] = << << "@" >> >>

====
